---- MODULE Spec2Model ----
(***************************************************************************)
(* A model of DualColorCoinViewer (DieStudyVis.py): the dual-coloured coin *)
(* glyphs built by plot_coins and the pick / pan / zoom handlers that the  *)
(* canvas dispatches to.                                                   *)
(*                                                                         *)
(* Numbers are exact rationals <<numerator, denominator>> in lowest terms  *)
(* (Python floats without their rounding); None is the pair <<0, 0>>.      *)
(***************************************************************************)
EXTENDS Integers, Sequences, FiniteSets, TLC

VARIABLES
    df,                  \* self.df: the loaded DataFrame (a dataset id)
    x_column,            \* self.x_column.currentText()
    y_column,            \* self.y_column.currentText()
    obv_column,          \* self.obv_column.currentText()
    rev_column,          \* self.rev_column.currentText()
    patches,             \* self.patches: the (wedge1, wedge2) pairs on the axes
    connected,           \* the figure has its axes and the five callbacks
    xlim,                \* ax.get_xlim()
    ylim,                \* ax.get_ylim()
    _suppress_next_drag, \* set by on_click, consumed by on_press
    _is_dragging,        \* a drag is active (absent attribute = FALSE)
    _drag_start,         \* (xdata, ydata) of the press that started the drag
    _xlim_start,         \* x limits at that press
    _ylim_start,         \* y limits at that press
    buttons,             \* mouse buttons physically held down
    pending,             \* the button_press_event being dispatched
    lastEvent,           \* the event the last handler ran for
    raised,              \* the exception the last handler raised, or "none"
    inspection,          \* what the last on_click showed in its message box
    plotted,             \* the inputs of the last build of the glyphs
    previous,            \* the build before the last: its inputs and glyphs
    gesture,             \* a primary pick and the press delivered after it
    steps                \* requests and canvas events so far

vars == <<df, x_column, y_column, obv_column, rev_column, patches, connected,
          xlim, ylim, _suppress_next_drag, _is_dragging, _drag_start,
          _xlim_start, _ylim_start, buttons, pending, lastEvent, raised, inspection, plotted,
          previous, gesture, steps>>

(***************************************************************************)
(* Bounds of the model.                                                    *)
(***************************************************************************)
MaxSteps == 5

(***************************************************************************)
(* Exact rational arithmetic.                                              *)
(***************************************************************************)
None == <<0, 0>>

Abs(n) == IF n < 0 THEN -n ELSE n

RECURSIVE GCD(_, _)
GCD(a, b) == IF b = 0 THEN a ELSE GCD(b, a % b)

LCM(a, b) == (a \div GCD(a, b)) * b

Norm(n, d) ==
    LET g == GCD(Abs(n), Abs(d))
        s == IF d < 0 THEN -1 ELSE 1
    IN  <<(s * n) \div g, (s * d) \div g>>

Frac(n, d) == Norm(n, d)
R(n) == <<n, 1>>

Add(a, b) ==
    LET l == LCM(a[2], b[2])
    IN  Norm(a[1] * (l \div a[2]) + b[1] * (l \div b[2]), l)
Neg(a) == <<-a[1], a[2]>>
Sub(a, b) == Add(a, Neg(b))
Mul(a, b) ==
    LET g1 == GCD(Abs(a[1]), b[2])
        g2 == GCD(Abs(b[1]), a[2])
    IN  Norm((a[1] \div g1) * (b[1] \div g2), (a[2] \div g2) * (b[2] \div g1))
Lt(a, b) ==
    LET l == LCM(a[2], b[2])
    IN  a[1] * (l \div a[2]) < b[1] * (l \div b[2])
Le(a, b) == a = b \/ Lt(a, b)

RECURSIVE MinOf(_)
MinOf(s) ==
    IF Len(s) = 1 THEN s[1]
    ELSE LET m == MinOf(Tail(s)) IN IF Lt(s[1], m) THEN s[1] ELSE m

RECURSIVE MaxOf(_)
MaxOf(s) ==
    IF Len(s) = 1 THEN s[1]
    ELSE LET m == MaxOf(Tail(s)) IN IF Lt(m, s[1]) THEN s[1] ELSE m

Range(s) == {s[i] : i \in 1..Len(s)}

(***************************************************************************)
(* The tables load_csv can read.  Dataset 0 is the empty pd.DataFrame() of *)
(* __init__; every CSV has the columns on_click displays, x first.         *)
(***************************************************************************)
Row(x, y, o, r, n) ==
    [x |-> x, y |-> y, obverse_group |-> o, reverse_group |-> r, name |-> n]

NoRow == Row(None, None, "", "", "")

Datasets == {1, 2}

Rows(d) ==
    CASE d = 1 -> << Row(R(0), R(1), "A", "X", "c0"),
                     Row(R(0), R(1), "B", "Y", "c1"),
                     Row(R(4), R(5), "A", "X", "c2") >>
      [] d = 2 -> << Row(Frac(61, 110), Frac(61, 110), "B", "Y", "d0"),
                     Row(Frac(1039, 110), Frac(1039, 110), "A", "Y", "d1"),
                     Row(Frac(3, 2), Frac(3, 2), "C", "R1", "d2"),
                     Row(Frac(5, 2), Frac(5, 2), "D", "R2", "d3"),
                     Row(Frac(7, 2), Frac(7, 2), "E", "R3", "d4"),
                     Row(Frac(9, 2), Frac(9, 2), "F", "R4", "d5"),
                     Row(Frac(11, 2), Frac(11, 2), "G", "R5", "d6"),
                     Row(Frac(13, 2), Frac(13, 2), "H", "R6", "d7"),
                     Row(Frac(15, 2), Frac(15, 2), "I", "R7", "d8"),
                     Row(Frac(17, 2), Frac(17, 2), "J", "R8", "d9") >>
      [] OTHER -> << >>

Columns(d) ==
    IF d = 0 THEN << >>
    ELSE <<"x", "y", "obverse_group", "reverse_group", "name">>

NumericColumns == {"x", "y"}
CategoryColumns == {"obverse_group", "reverse_group"}

\* self.df[col]
Column(d, col) ==
    LET rows == Rows(d)
    IN  [i \in 1..Len(rows) |-> rows[i][col]]

(***************************************************************************)
(* plot_coins: colour maps, wedges, autoscale.                             *)
(***************************************************************************)
Set1Size == 9
Set2Size == 8

PaletteSize(name) == IF name = "Set1" THEN Set1Size ELSE Set2Size

\* Series.unique(): the distinct values in order of first appearance
RECURSIVE unique(_)
unique(s) ==
    IF s = << >> THEN << >>
    ELSE LET u == unique(SubSeq(s, 1, Len(s) - 1))
             v == s[Len(s)]
         IN  IF v \in Range(u) THEN u ELSE Append(u, v)

color_palette_no_cycle(name, n) ==
    [i \in 1..n |-> [palette |-> name, index |-> i - 1]]

\* sns.color_palette(name, n): n colours, cycling through the named palette
color_palette(name, n) ==
    [i \in 1..n |-> [palette |-> name, index |-> (i - 1) % PaletteSize(name)]]

ColorMapByRow(values, name) ==
    LET pal == color_palette(name, Len(values))
    IN  [v \in Range(values) |->
            pal[CHOOSE i \in 1..Len(values) :
                    values[i] = v /\ \A j \in 1..(i - 1) : values[j] # v]]

\* {val: palette[i] for i, val in enumerate(values.unique())}
ColorMap(values, name) ==
    LET u   == unique(values)
        pal == color_palette(name, Len(u))
    IN  [v \in Range(u) |-> pal[CHOOSE i \in 1..Len(u) : u[i] = v]]

radius == Frac(1, 10)

Wedge(center, r, theta1, theta2, facecolor, gid) ==
    [center |-> center, r |-> r, theta1 |-> theta1, theta2 |-> theta2,
     facecolor |-> facecolor, gid |-> gid]

wedge1_gid_from_1(i, xi, yi, o, r, obv_map, rev_map) ==
    Wedge(<<xi, yi>>, radius, 90, 270, obv_map[o], i + 1)

\* Left half (obverse)
wedge1(i, xi, yi, o, r, obv_map, rev_map) ==
    Wedge(<<xi, yi>>, radius, 90, 270, obv_map[o], i)

wedge2_obverse_colour(i, xi, yi, o, r, obv_map, rev_map) ==
    Wedge(<<xi, yi>>, radius, 270, 90,
          [palette |-> "Set2", index |-> obv_map[o].index], i)

\* Right half (reverse)
wedge2(i, xi, yi, o, r, obv_map, rev_map) ==
    Wedge(<<xi, yi>>, radius, 270, 90, rev_map[r], i)

\* the loop over enumerate(zip(x, y, obv, rev)); gid i counts from 0
BuildPatches(d, x_col, y_col, obv_col, rev_col) ==
    LET x == Column(d, x_col)
        y == Column(d, y_col)
        obv == Column(d, obv_col)
        rev == Column(d, rev_col)
        obv_map == ColorMap(obv, "Set1")
        rev_map == ColorMap(rev, "Set2")
    IN  [k \in 1..Len(x) |->
            <<wedge1(k - 1, x[k], y[k], obv[k], rev[k], obv_map, rev_map),
              wedge2(k - 1, x[k], y[k], obv[k], rev[k], obv_map, rev_map)>>]

\* ax.relim(); ax.autoscale_view(): the extent of the wedges widened by the
\* default 5% margin on each side (an axes without data gets +-0.055)
margin == Frac(1, 20)

AutoscaleAxis(ps, k) ==
    IF ps = << >> THEN <<Frac(-11, 200), Frac(11, 200)>>
    ELSE LET lo == Sub(MinOf([i \in 1..Len(ps) |-> ps[i][1].center[k]]), radius)
             hi == Add(MaxOf([i \in 1..Len(ps) |-> ps[i][1].center[k]]), radius)
             delta == Mul(Sub(hi, lo), margin)
         IN  <<Sub(lo, delta), Add(hi, delta)>>

AutoscaleKeepsView(ps) ==
    IF connected THEN <<xlim, ylim>> ELSE <<AutoscaleAxis(ps, 1), AutoscaleAxis(ps, 2)>>

\* on the axes plot_coins has just created (figure.clear(), add_subplot)
Autoscale(ps) == <<AutoscaleAxis(ps, 1), AutoscaleAxis(ps, 2)>>

AnySelectionAccepted(x_col, y_col, obv_col, rev_col) == TRUE

\* if not all([x_col, y_col, obv_col, rev_col]): return
AllSelected(x_col, y_col, obv_col, rev_col) ==
    x_col # "" /\ y_col # "" /\ obv_col # "" /\ rev_col # ""

(***************************************************************************)
(* Events.  A mouse button is "1" (primary) or "3"; a scroll event's       *)
(* button is "up" or "down".  An event outside the axes has inaxes = FALSE *)
(* and xdata = ydata = None.                                               *)
(***************************************************************************)
Event(type, button, pos, gid, half) ==
    [type |-> type, button |-> button, inaxes |-> pos[1] # None,
     xdata |-> pos[1], ydata |-> pos[2], gid |-> gid, half |-> half]

Outside == <<None, None>>
NoEvent == Event("none", "", Outside, -1, "")
NoInspection == [rowIndex |-> -1, row |-> NoRow]
NoPlot == [df |-> 0, x |-> "", y |-> "", obv |-> "", rev |-> ""]
NoPending == [active |-> FALSE, event |-> NoEvent, picks |-> << >>]
NoPrevious == [plotted |-> NoPlot, patches |-> << >>]
NoGesture == [phase |-> "none", view |-> <<Outside, Outside>>]

MouseButtons == {"1", "3"}
WheelButtons == {"up", "down"}

\* where the pointer is put: free positions of the data plane
PressPoints == {<<R(2), R(2)>>}
MotionPoints == {<<R(3), R(4)>>, <<R(0), R(3)>>}
ScrollPoints == {<<R(3), R(4)>>, <<R(5), R(5)>>}
ReleasePoints == {<<R(2), R(2)>>}

\* and positions on glyphs: the left half of the first glyph on display, the
\* right half of the last
HalfOffset == Frac(1, 20)
GlyphTargets ==
    IF patches = << >> THEN {}
    ELSE LET first == patches[1][1].center
             last  == patches[Len(patches)][2].center
         IN  {<<Sub(first[1], HalfOffset), first[2]>>,
              <<Add(last[1], HalfOffset), last[2]>>}

\* the pointer is over the axes: its data coordinates resolve
InAxes(pos) ==
    /\ Le(xlim[1], pos[1]) /\ Le(pos[1], xlim[2])
    /\ Le(ylim[1], pos[2]) /\ Le(pos[2], ylim[2])

\* Wedge.contains: inside the disc, on the wedge's side of the split
Contains(w, pos) ==
    LET ddx == Sub(pos[1], w.center[1])
        ddy == Sub(pos[2], w.center[2])
    IN  /\ Le(Add(Mul(ddx, ddx), Mul(ddy, ddy)), Mul(w.r, w.r))
        /\ IF w.theta1 = 90 THEN Lt(ddx, R(0)) ELSE Lt(R(0), ddx)

\* the artists of the axes in drawing order
Artists == [k \in 1..(2 * Len(patches)) |-> patches[(k + 1) \div 2][2 - (k % 2)]]

\* figure.pick: one pick_event per pickable artist under the pointer
Hits(pos) ==
    LET hit == SelectSeq(Artists, LAMBDA w : Contains(w, pos))
    IN  [k \in 1..Len(hit) |->
            [gid |-> hit[k].gid,
             half |-> IF hit[k].theta1 = 90 THEN "left" ELSE "right"]]

(***************************************************************************)
(* Initial state: __init__.                                                *)
(***************************************************************************)
Init ==
    /\ df = 0
    /\ x_column = "" /\ y_column = "" /\ obv_column = "" /\ rev_column = ""
    /\ patches = << >>
    /\ connected = FALSE
    /\ xlim = Outside /\ ylim = Outside
    /\ _suppress_next_drag = FALSE
    /\ _is_dragging = FALSE
    /\ _drag_start = Outside
    /\ _xlim_start = Outside /\ _ylim_start = Outside
    /\ buttons = {}
    /\ pending = NoPending
    /\ lastEvent = NoEvent
    /\ raised = "none"
    /\ inspection = NoInspection
    /\ plotted = NoPlot
    /\ previous = NoPrevious
    /\ gesture = NoGesture
    /\ steps = 0

selectors == <<x_column, y_column, obv_column, rev_column>>
viewport == <<xlim, ylim>>
dragState == <<_is_dragging, _drag_start, _xlim_start, _ylim_start>>
scene == <<patches, connected, plotted>>
mouse == <<buttons, pending>>

(***************************************************************************)
(* The control panel: Load CSV, the four combo boxes, Plot Coins.          *)
(***************************************************************************)
\* update_dropdowns: clear() then addItems(columns) leaves each combo box on
\* its first item
update_dropdowns(d) ==
    LET first == IF Columns(d) = << >> THEN "" ELSE Columns(d)[1]
    IN  /\ x_column' = first
        /\ y_column' = first
        /\ obv_column' = first
        /\ rev_column' = first

load_csv(d) ==
    /\ ~pending.active
    /\ steps < MaxSteps
    /\ steps' = steps + 1
    /\ df' = d
    /\ update_dropdowns(d)
    /\ lastEvent' = Event("load", "", Outside, -1, "")
    /\ raised' = "none"
    /\ UNCHANGED <<viewport, scene, dragState, _suppress_next_drag, mouse,
                   inspection, previous, gesture>>

\* the user picks another item of one combo box
Select(x_col, y_col, obv_col, rev_col) ==
    /\ ~pending.active
    /\ steps < MaxSteps
    /\ <<x_col, y_col, obv_col, rev_col>> # selectors
    /\ steps' = steps + 1
    /\ x_column' = x_col
    /\ y_column' = y_col
    /\ obv_column' = obv_col
    /\ rev_column' = rev_col
    /\ lastEvent' = Event("select", "", Outside, -1, "")
    /\ raised' = "none"
    /\ UNCHANGED <<df, viewport, scene, dragState, _suppress_next_drag, mouse,
                   inspection, previous, gesture>>

SelectX == \E c \in NumericColumns \cap Range(Columns(df)) :
               Select(c, y_column, obv_column, rev_column)
SelectY == \E c \in NumericColumns \cap Range(Columns(df)) :
               Select(x_column, c, obv_column, rev_column)
SelectObv == \E c \in CategoryColumns \cap Range(Columns(df)) :
                 Select(x_column, y_column, c, rev_column)
SelectRev == \E c \in CategoryColumns \cap Range(Columns(df)) :
                 Select(x_column, y_column, obv_column, c)

plot_coins ==
    /\ ~pending.active
    /\ steps < MaxSteps
    /\ steps' = steps + 1
    /\ lastEvent' = Event("plot", "", Outside, -1, "")
    /\ IF ~AllSelected(x_column, y_column, obv_column, rev_column)
       THEN /\ raised' = "none"
            /\ UNCHANGED <<viewport, scene, previous>>
       ELSE IF ~({x_column, y_column, obv_column, rev_column}
                    \subseteq Range(Columns(df)))
       THEN \* self.df[col] of a column the frame does not have
            /\ raised' = "KeyError"
            /\ UNCHANGED <<viewport, scene, previous>>
       ELSE LET ps == BuildPatches(df, x_column, y_column, obv_column, rev_column)
            IN  /\ patches' = ps
                /\ connected' = TRUE
                /\ xlim' = Autoscale(ps)[1]
                /\ ylim' = Autoscale(ps)[2]
                /\ plotted' = [df |-> df, x |-> x_column, y |-> y_column,
                               obv |-> obv_column, rev |-> rev_column]
                /\ previous' = [plotted |-> plotted, patches |-> patches]
                /\ raised' = "none"
    /\ gesture' = NoGesture
    /\ UNCHANGED <<df, selectors, dragState, _suppress_next_drag, mouse,
                   inspection>>

(***************************************************************************)
(* The canvas callbacks connected by plot_coins.  mpl_connect registers a  *)
(* bound method once per signal, so every plot after the first leaves one  *)
(* registration of each handler.                                           *)
(***************************************************************************)
CanDeliver ==
    /\ connected
    /\ ~pending.active
    /\ steps < MaxSteps

\* a button goes down over the canvas: the canvas first picks the artists
\* under the pointer (its own callback, registered before on_press), then
\* runs on_press for the same event.  A button that is down has to come up
\* before it goes down again, so pick events reach on_click only on the way
\* to an on_press, and never for a button that is held.
button_press_event(b, pos) ==
    /\ CanDeliver
    /\ b \notin buttons
    /\ steps' = steps + 1
    /\ buttons' = buttons \cup {b}
    /\ pending' = [active |-> TRUE,
                   event  |-> Event("press", b, pos, -1, ""),
                   picks  |-> IF pos = Outside THEN << >> ELSE Hits(pos)]
    /\ gesture' = NoGesture
    /\ UNCHANGED <<df, selectors, viewport, scene, dragState,
                   _suppress_next_drag, lastEvent, raised, inspection, previous>>

\* row = self.df.iloc[ind]
iloc(d, ind) ==
    IF ind >= 0 /\ ind < Len(Rows(d)) THEN Rows(d)[ind + 1] ELSE NoRow

PickIgnoredInverted(button) == button = "1"

PickNeverIgnored(button) == FALSE

\* if event.mouseevent.button != 1: return
PickIgnored(button) == button # "1"

on_click(event) ==
    /\ lastEvent' = event
    /\ IF PickIgnored(event.button)
       THEN /\ raised' = "none"
            /\ inspection' = NoInspection
            /\ UNCHANGED _suppress_next_drag
       ELSE /\ _suppress_next_drag' = TRUE
            /\ IF iloc(df, event.gid) = NoRow
               THEN /\ raised' = "IndexError"
                    /\ inspection' = NoInspection
               ELSE /\ raised' = "none"
                    /\ inspection' = [rowIndex |-> event.gid,
                                      row |-> iloc(df, event.gid)]
    /\ gesture' = IF event.button = "1" /\ gesture.phase # "picked"
                  THEN [phase |-> "picked", view |-> viewport]
                  ELSE gesture
    /\ UNCHANGED <<df, selectors, viewport, scene, dragState, buttons,
                   previous, steps>>

\* the next pick_event of the press being dispatched
PickEvent ==
    /\ pending.active
    /\ pending.picks # << >>
    /\ LET a == Head(pending.picks)
           e == pending.event
       IN  on_click(Event("pick", e.button, <<e.xdata, e.ydata>>, a.gid, a.half))
    /\ pending' = [pending EXCEPT !.picks = Tail(pending.picks)]

DragAcceptedAnywhere(event) == event.button = "1"

\* if event.button == 1 and event.inaxes
DragAccepted(event) == event.button = "1" /\ event.inaxes

on_press_falls_through(event) ==
    /\ lastEvent' = event
    /\ raised' = "none"
    /\ _suppress_next_drag' = FALSE
    /\ IF DragAccepted(event)
       THEN /\ _is_dragging' = TRUE
            /\ _drag_start' = <<event.xdata, event.ydata>>
            /\ _xlim_start' = xlim
            /\ _ylim_start' = ylim
       ELSE UNCHANGED dragState
    /\ gesture' = IF gesture.phase = "picked"
                  THEN [gesture EXCEPT !.phase = "suppressed"]
                  ELSE NoGesture
    /\ UNCHANGED <<df, selectors, viewport, scene, buttons, inspection,
                   previous, steps>>

\* if self._suppress_next_drag: clear it and return; else start a drag
on_press(event) ==
    /\ lastEvent' = event
    /\ raised' = "none"
    /\ IF _suppress_next_drag
       THEN /\ _suppress_next_drag' = FALSE
            /\ UNCHANGED dragState
       ELSE /\ UNCHANGED _suppress_next_drag
            /\ IF DragAccepted(event)
               THEN /\ _is_dragging' = TRUE
                    /\ _drag_start' = <<event.xdata, event.ydata>>
                    /\ _xlim_start' = xlim
                    /\ _ylim_start' = ylim
               ELSE UNCHANGED dragState
    /\ gesture' = IF gesture.phase = "picked"
                  THEN [gesture EXCEPT !.phase = "suppressed"]
                  ELSE NoGesture
    /\ UNCHANGED <<df, selectors, viewport, scene, buttons, inspection,
                   previous, steps>>

\* on_press runs once the picks of the event are done
PressEvent ==
    /\ pending.active
    /\ pending.picks = << >>
    /\ on_press(pending.event)
    /\ pending' = NoPending

\* Python truth of a coordinate: None and 0.0 are both false
Truthy(v) == v # None /\ v # R(0)

\* if getattr(self, "_is_dragging", False) and event.inaxes and event.xdata
\*    and event.ydata
MotionApplies(event) ==
    _is_dragging /\ event.inaxes /\ Truthy(event.xdata) /\ Truthy(event.ydata)

\* (start[0] - d, start[1] - d)
PanLimits(start, d) == <<Sub(start[1], d), Sub(start[2], d)>>

on_motion(event) ==
    /\ lastEvent' = event
    /\ raised' = "none"
    /\ IF MotionApplies(event)
       THEN LET dx == Sub(event.xdata, _drag_start[1])
                dy == Sub(event.ydata, _drag_start[2])
            IN  /\ xlim' = PanLimits(_xlim_start, dx)
                /\ ylim' = PanLimits(_ylim_start, dy)
       ELSE UNCHANGED viewport
    /\ UNCHANGED <<df, selectors, scene, dragState, _suppress_next_drag,
                   buttons, pending, inspection, previous, gesture>>

MotionEvent ==
    \E pos \in MotionPoints \cup {Outside} :
        /\ CanDeliver
        /\ pos # Outside => InAxes(pos)
        /\ steps' = steps + 1
        /\ on_motion(Event("motion", "", pos, -1, ""))

on_release_primary_only(event) ==
    /\ lastEvent' = event
    /\ raised' = "none"
    /\ _is_dragging' = (_is_dragging /\ event.button # "1")
    /\ UNCHANGED <<df, selectors, viewport, scene, _drag_start, _xlim_start,
                   _ylim_start, _suppress_next_drag, pending, inspection,
                   previous, gesture>>

\* self._is_dragging = False, whatever the button and the position
on_release(event) ==
    /\ lastEvent' = event
    /\ raised' = "none"
    /\ _is_dragging' = FALSE
    /\ UNCHANGED <<df, selectors, viewport, scene, _drag_start, _xlim_start,
                   _ylim_start, _suppress_next_drag, pending, inspection,
                   previous, gesture>>

ReleaseEvent ==
    \E b \in buttons, pos \in ReleasePoints \cup {Outside} :
        /\ CanDeliver
        /\ pos # Outside => InAxes(pos)
        /\ steps' = steps + 1
        /\ buttons' = buttons \ {b}
        /\ on_release(Event("release", b, pos, -1, ""))

base_scale == Frac(6, 5)

Inverse(a) == Norm(a[2], a[1])

scale_factor_swapped(button) ==
    IF button = "up" THEN base_scale
    ELSE IF button = "down" THEN Inverse(base_scale)
    ELSE R(1)

scale_factor(button) ==
    IF button = "up" THEN Inverse(base_scale)
    ELSE IF button = "down" THEN base_scale
    ELSE R(1)

ZoomLimitsInverted(data, lim, factor) ==
    LET range == Sub(lim[2], lim[1])
        half  == Mul(Mul(range, factor), Frac(1, 2))
    IN  <<Add(data, half), Sub(data, half)>>

\* [data - range * scale_factor / 2, data + range * scale_factor / 2]
ZoomLimits(data, lim, factor) ==
    LET range == Sub(lim[2], lim[1])
        half  == Mul(Mul(range, factor), Frac(1, 2))
    IN  <<Sub(data, half), Add(data, half)>>

\* if xdata is None or ydata is None: return
ScrollDropped(event) == event.xdata = None \/ event.ydata = None

on_scroll(event) ==
    /\ lastEvent' = event
    /\ raised' = "none"
    /\ IF ScrollDropped(event)
       THEN UNCHANGED viewport
       ELSE /\ xlim' = ZoomLimits(event.xdata, xlim, scale_factor(event.button))
            /\ ylim' = ZoomLimits(event.ydata, ylim, scale_factor(event.button))
    /\ gesture' = NoGesture
    /\ UNCHANGED <<df, selectors, scene, dragState, _suppress_next_drag,
                   buttons, pending, inspection, previous>>

ScrollEvent ==
    \E b \in WheelButtons, pos \in ScrollPoints \cup {Outside} :
        /\ CanDeliver
        /\ pos # Outside => InAxes(pos)
        /\ steps' = steps + 1
        /\ on_scroll(Event("scroll", b, pos, -1, ""))

ButtonPress ==
    \E b \in MouseButtons, pos \in PressPoints \cup GlyphTargets \cup {Outside} :
        /\ CanDeliver
        /\ pos # Outside => InAxes(pos)
        /\ button_press_event(b, pos)

Next ==
    \/ \E d \in Datasets : load_csv(d)
    \/ SelectX
    \/ SelectY
    \/ SelectObv
    \/ SelectRev
    \/ plot_coins
    \/ ButtonPress
    \/ PickEvent
    \/ PressEvent
    \/ MotionEvent
    \/ ReleaseEvent
    \/ ScrollEvent

Spec == Init /\ [][Next]_vars

\* on_scroll's third branch: a scroll event whose button is neither 'up' nor
\* 'down' (matplotlib leaves the button None when the step of the wheel is 0)
OtherScrollEvent ==
    \E pos \in ScrollPoints \cup {Outside} :
        /\ CanDeliver
        /\ pos # Outside => InAxes(pos)
        /\ steps' = steps + 1
        /\ on_scroll(Event("scroll", "", pos, -1, ""))

NextWheel ==
    \/ Next
    \/ OtherScrollEvent

\* the program with the scroll events of all three branches of on_scroll
SpecWheel == Init /\ [][NextWheel]_vars

(***************************************************************************)
(* Properties.                                                             *)
(***************************************************************************)
Width(lim) == Sub(lim[2], lim[1])

\* the step runs a handler (every step but the arrival of a button press)
HandlerStep == ~(pending'.active /\ ~pending.active)

\* C1: a primary pick followed at once by a press starts no drag: from that
\* press on, through the motion events after it and until the next press,
\* the viewport is the one the pick found.
C1_PickThenPressKeepsViewport ==
    gesture.phase = "suppressed" =>
        /\ viewport = gesture.view
        /\ ~_is_dragging

\* a motion with resolved, non-zero coordinates that follows a suppressed press
C1_Witness ==
    /\ gesture.phase = "suppressed"
    /\ lastEvent.type = "motion"
    /\ lastEvent.inaxes
    /\ lastEvent.xdata # R(0)
    /\ lastEvent.ydata # R(0)

\* C2: during a drag, after a motion event with resolved coordinates M (zero
\* included) the viewport is the press-time snapshot moved by -(M - P), P
\* the press point.
C2_DragPansBySnapshotDelta ==
    (lastEvent.type = "motion" /\ lastEvent.inaxes /\ _is_dragging) =>
        LET dx == Sub(lastEvent.xdata, _drag_start[1])
            dy == Sub(lastEvent.ydata, _drag_start[2])
        IN  /\ xlim = <<Sub(_xlim_start[1], dx), Sub(_xlim_start[2], dx)>>
            /\ ylim = <<Sub(_ylim_start[1], dy), Sub(_ylim_start[2], dy)>>

\* C3: a wheel-up scroll with resolved cursor coordinates leaves the cursor
\* at the same relative position of the viewport:
\* (c - min) / width is the same before and after, on both axes.
C3_ZoomKeepsCursorPosition ==
    [][(HandlerStep /\ lastEvent'.type = "scroll" /\ lastEvent'.button = "up"
            /\ lastEvent'.inaxes)
        => /\ Mul(Sub(lastEvent'.xdata, xlim[1]), Width(xlim'))
              = Mul(Sub(lastEvent'.xdata, xlim'[1]), Width(xlim))
           /\ Mul(Sub(lastEvent'.ydata, ylim[1]), Width(ylim'))
              = Mul(Sub(lastEvent'.ydata, ylim'[1]), Width(ylim))]_vars

\* C4: a scroll with resolved cursor coordinates multiplies the width and the
\* height of the viewport by 1/1.2 (wheel up) or 1.2 (wheel down); wheel up
\* at (5,5) in the viewport [0,10]x[0,10] gives [5 - 5/1.2, 5 + 5/1.2] on
\* both axes.
C4_ScrollScalesViewport ==
    [][(HandlerStep /\ lastEvent'.type = "scroll" /\ lastEvent'.inaxes)
        => LET f == IF lastEvent'.button = "up" THEN Frac(10, 12)
                    ELSE Frac(12, 10)
           IN  /\ Width(xlim') = Mul(Width(xlim), f)
               /\ Width(ylim') = Mul(Width(ylim), f)
               /\ (/\ xlim = <<R(0), R(10)>>
                   /\ ylim = <<R(0), R(10)>>
                   /\ lastEvent'.button = "up"
                   /\ lastEvent'.xdata = R(5)
                   /\ lastEvent'.ydata = R(5))
                  => /\ xlim' = <<Sub(R(5), Frac(50, 12)), Add(R(5), Frac(50, 12))>>
                     /\ ylim' = xlim']_vars

\* the scenario's scroll has happened
C4_Witness ==
    /\ lastEvent.type = "scroll"
    /\ lastEvent.button = "up"
    /\ lastEvent.xdata = R(5)
    /\ lastEvent.ydata = R(5)
    /\ xlim = <<Frac(5, 6), Frac(55, 6)>>
    /\ ylim = xlim

\* the number of distinct values that appear in a column before value v does
FirstSeenRank(values, v) ==
    LET first == CHOOSE i \in 1..Len(values) :
                     values[i] = v /\ \A j \in 1..(i - 1) : values[j] # v
    IN  Cardinality({values[j] : j \in 1..(first - 1)})

PaletteColour(name, i) == [palette |-> name, index |-> i % PaletteSize(name)]

\* C5: the colour of a half is decided by the column's values and the
\* palette alone: a value that is the i-th distinct value of its column, in
\* order of first appearance, has palette colour i (duplicates take no slot);
\* obverse values A, B, A get the first, second and first colour.
C5_ColoursFollowFirstSeenOrder ==
    plotted # NoPlot =>
        LET obv == Column(plotted.df, plotted.obv)
            rev == Column(plotted.df, plotted.rev)
        IN  /\ Len(patches) = Len(obv)
            /\ \A i \in 1..Len(patches) :
                /\ patches[i][1].facecolor
                     = PaletteColour("Set1", FirstSeenRank(obv, obv[i]))
                /\ patches[i][2].facecolor
                     = PaletteColour("Set2", FirstSeenRank(rev, rev[i]))
            /\ obv = <<"A", "B", "A">> =>
                   [i \in 1..3 |-> patches[i][1].facecolor.index] = <<0, 1, 0>>

\* the A, B, A column has been plotted as the obverse
C5_Witness ==
    /\ plotted # NoPlot
    /\ Column(plotted.df, plotted.obv) = <<"A", "B", "A">>
    /\ Len(patches) = 3
    /\ patches[3][1].facecolor = [palette |-> "Set1", index |-> 0]

SameButObverse(a, b) ==
    /\ a # NoPlot /\ b # NoPlot
    /\ a.df = b.df /\ a.x = b.x /\ a.y = b.y /\ a.rev = b.rev
    /\ a.obv # b.obv

\* C6: two builds from the same dataset and the same x, y and reverse
\* columns that differ in the obverse column give glyphs with the same
\* right-half colours, centres and row indices.
C6_ObverseChangesLeftHalvesOnly ==
    SameButObverse(previous.plotted, plotted) =>
        /\ Len(patches) = Len(previous.patches)
        /\ \A i \in 1..Len(patches) :
            /\ patches[i][2].facecolor = previous.patches[i][2].facecolor
            /\ patches[i][1].center = previous.patches[i][1].center
            /\ patches[i][2].center = previous.patches[i][2].center
            /\ patches[i][1].gid = previous.patches[i][1].gid
            /\ patches[i][2].gid = previous.patches[i][2].gid

\* a rebuild with another obverse column that did change a left half
C6_Witness ==
    /\ SameButObverse(previous.plotted, plotted)
    /\ \E i \in 1..Len(patches) :
           patches[i][1].facecolor # previous.patches[i][1].facecolor

\* the glyphs on display were built from the frame that is loaded now
BuildIsCurrent == plotted # NoPlot /\ plotted.df = df

\* C7: after a rebuild there is one glyph per row of the dataset, both halves
\* of the glyph of row i carry index i, and a primary pick on either half of
\* it shows row i: the row whose (x, y) the pointer is within one radius of.
C7_PickShowsRowOfGlyph ==
    /\ plotted # NoPlot =>
        /\ Len(patches) = Len(Rows(plotted.df))
        /\ \A i \in 1..Len(patches) :
            /\ patches[i][1].gid = i - 1
            /\ patches[i][2].gid = i - 1
            /\ patches[i][1].center
                 = <<Rows(plotted.df)[i][plotted.x], Rows(plotted.df)[i][plotted.y]>>
            /\ patches[i][2].center = patches[i][1].center
    /\ (BuildIsCurrent /\ lastEvent.type = "pick" /\ lastEvent.button = "1") =>
        /\ raised = "none"
        /\ inspection.rowIndex = lastEvent.gid
        /\ inspection.rowIndex \in 0..(Len(Rows(df)) - 1)
        /\ inspection.row = Rows(df)[inspection.rowIndex + 1]
        /\ LET ddx == Sub(lastEvent.xdata, inspection.row[plotted.x])
               ddy == Sub(lastEvent.ydata, inspection.row[plotted.y])
           IN  Le(Add(Mul(ddx, ddx), Mul(ddy, ddy)), Mul(radius, radius))

\* row 0 picked on its left half
C7_Witness ==
    /\ BuildIsCurrent
    /\ lastEvent.type = "pick"
    /\ lastEvent.button = "1"
    /\ lastEvent.half = "left"
    /\ inspection.rowIndex = 0

\* C8: whatever loads, selections and plots came before, the glyphs on
\* display are the build from the loaded dataset and the current four
\* selections, every glyph index is a row index of the loaded dataset, and a
\* pick shows the row its glyph was built from.
C8_GlyphsAreCurrentBuild ==
    connected =>
        /\ patches = BuildPatches(df, x_column, y_column, obv_column, rev_column)
        /\ \A i \in 1..Len(patches) :
               patches[i][1].gid \in 0..(Len(Rows(df)) - 1)
        /\ (lastEvent.type = "pick" /\ lastEvent.button = "1") =>
               /\ raised = "none"
               /\ inspection.row = Rows(plotted.df)[lastEvent.gid + 1]

C10_UnresolvedEventsDropped ==
    [][(HandlerStep /\ lastEvent'.type \in {"scroll", "press", "motion"}
            /\ ~lastEvent'.inaxes)
        => /\ raised' = "none"
           /\ viewport' = viewport
           /\ dragState' = dragState]_vars

\* a primary press outside the axes was handled while no drag was active
C10_Witness ==
    /\ lastEvent.type = "press"
    /\ lastEvent.button = "1"
    /\ ~lastEvent.inaxes
    /\ ~pending.active
    /\ ~_is_dragging

\* C11: a scroll event whose wheel signal is neither up nor down, with
\* resolved cursor coordinates, leaves all four bounds of the viewport as
\* they were.
C11_OtherWheelSignalIsNoOp ==
    [][(HandlerStep /\ lastEvent'.type = "scroll"
            /\ lastEvent'.button \notin WheelButtons /\ lastEvent'.inaxes)
        => viewport' = viewport]_vars

\* C12: building the colour maps never fails for lack of palette colours:
\* whatever the number of distinct values, more than the base palette holds
\* included, every value gets a colour of the base palette, the i-th distinct
\* value the colour (i mod palette size) of Set1 (9 colours, obverse) or of
\* Set2 (8 colours, reverse).
C12_PaletteWrapsAround ==
    plotted # NoPlot =>
        LET obv == Column(plotted.df, plotted.obv)
            rev == Column(plotted.df, plotted.rev)
        IN  /\ \A i \in 1..Len(patches) :
                /\ patches[i][1].facecolor.palette = "Set1"
                /\ patches[i][1].facecolor.index \in 0..(Set1Size - 1)
                /\ patches[i][1].facecolor.index
                     = FirstSeenRank(obv, obv[i]) % Set1Size
                /\ patches[i][2].facecolor.palette = "Set2"
                /\ patches[i][2].facecolor.index \in 0..(Set2Size - 1)
                /\ patches[i][2].facecolor.index
                     = FirstSeenRank(rev, rev[i]) % Set2Size
            /\ (/\ lastEvent.type = "plot"
                /\ plotted = [df |-> df, x |-> x_column, y |-> y_column,
                              obv |-> obv_column, rev |-> rev_column])
               => raised = "none"

\* a build whose obverse and reverse columns both hold more distinct values
\* than their palettes: the tenth distinct value wraps to the first colour of
\* Set1 and to the second of Set2
C12_Witness ==
    /\ plotted # NoPlot
    /\ lastEvent.type = "plot"
    /\ raised = "none"
    /\ Cardinality(Range(Column(plotted.df, plotted.obv))) > Set1Size
    /\ Cardinality(Range(Column(plotted.df, plotted.rev))) > Set2Size
    /\ Len(patches) = 10
    /\ FirstSeenRank(Column(plotted.df, plotted.obv),
                     Column(plotted.df, plotted.obv)[10]) = 9
    /\ patches[10][1].facecolor = [palette |-> "Set1", index |-> 0]
    /\ patches[10][2].facecolor = [palette |-> "Set2", index |-> 1]

\* C13: a release ends a drag unconditionally: after a release of any button
\* at any position, in any state, no drag is active; from then on a motion
\* leaves the viewport as it is, and a drag becomes active again only by a
\* press accepted as a drag start (primary button, resolved coordinates).
C13_ReleaseEndsDrag ==
    [][/\ (HandlerStep /\ lastEvent'.type = "release") => ~_is_dragging'
       /\ (HandlerStep /\ lastEvent'.type = "motion" /\ ~_is_dragging)
            => viewport' = viewport
       /\ (~_is_dragging /\ _is_dragging')
            => /\ lastEvent'.type = "press"
               /\ lastEvent'.button = "1"
               /\ lastEvent'.inaxes]_vars

\* a motion with resolved, non-zero coordinates after the release that ended
\* a drag (the press point of the drag is still recorded)
C13_Witness ==
    /\ lastEvent.type = "motion"
    /\ lastEvent.inaxes
    /\ lastEvent.xdata # R(0)
    /\ lastEvent.ydata # R(0)
    /\ _drag_start # Outside
    /\ buttons = {}
    /\ ~_is_dragging

\* C14: a pan step translates the viewport without rescaling it: for every
\* motion event handled, in any state (scroll events between the press and
\* the motion included), the width and the height of the viewport after the
\* motion are those before it.
C14_PanKeepsSize ==
    [][(HandlerStep /\ lastEvent'.type = "motion")
        => /\ Width(xlim') = Width(xlim)
           /\ Width(ylim') = Width(ylim)]_vars

\* the step runs on_press
PressStep == pending.active /\ ~pending'.active

\* the step runs on_click for one pick of the press being dispatched
PickStep == pending.active /\ pending'.active

\* C15: the suppression a pick sets is consumed by exactly one press: every
\* primary pick sets the flag, however many there are; the press after them,
\* of any button and at any position, clears the flag and leaves the drag
\* state (active flag, press point, snapshot) as it was; the flag is clear
\* after every press; a primary press with resolved coordinates that finds
\* the flag clear starts a drag with that press point and the viewport of
\* that moment as the snapshot.
C15_SuppressionConsumedByOnePress ==
    [][/\ (PickStep /\ lastEvent'.button = "1") => _suppress_next_drag'
       /\ PressStep =>
            /\ ~_suppress_next_drag'
            /\ _suppress_next_drag => dragState' = dragState
            /\ (/\ ~_suppress_next_drag
                /\ lastEvent'.button = "1"
                /\ lastEvent'.inaxes)
               => /\ _is_dragging'
                  /\ _drag_start' = <<lastEvent'.xdata, lastEvent'.ydata>>
                  /\ _xlim_start' = xlim
                  /\ _ylim_start' = ylim]_vars

\* after a press suppressed by two picks (rows 0 and 1, drawn at one place)
\* and its release, a primary press away from the glyphs has started a drag
C15_Witness ==
    /\ lastEvent.type = "press"
    /\ lastEvent.button = "1"
    /\ inspection.rowIndex = 1
    /\ ~_suppress_next_drag
    /\ _is_dragging
    /\ _drag_start = <<lastEvent.xdata, lastEvent.ydata>>
    /\ _xlim_start = xlim

\* C16: a pick delivered with a non-primary button is ignored entirely: it
\* shows no inspection and raises nothing, and the suppression flag, the
\* drag state and the viewport are after it what they were before.
C16_NonPrimaryPickIgnored ==
    [][(PickStep /\ lastEvent'.button # "1")
        => /\ inspection' = NoInspection
           /\ raised' = "none"
           /\ _suppress_next_drag' = _suppress_next_drag
           /\ dragState' = dragState
           /\ viewport' = viewport]_vars

\* on_click has run for a pick of the secondary button on a glyph
C16_Witness ==
    /\ lastEvent.type = "pick"
    /\ lastEvent.button = "3"
    /\ lastEvent.gid >= 0
    /\ inspection = NoInspection
    /\ ~_suppress_next_drag

\* the step is a plot_coins that rebuilt the scene
RebuildStep ==
    /\ HandlerStep
    /\ lastEvent'.type = "plot"
    /\ raised' = "none"
    /\ AllSelected(x_column, y_column, obv_column, rev_column)

\* the coordinates, on axis k, of the centres of the glyphs
Centres(ps, k) == [i \in 1..Len(ps) |-> ps[i][1].center[k]]

\* the limits are those of a fresh autoscale of the glyphs: every centre is
\* strictly inside, the limits are centred on the centres' extent and as
\* wide as that extent plus a glyph diameter, plus 5% on each side
AutoscaledOn(lim, cs) ==
    /\ \A i \in 1..Len(cs) : Lt(lim[1], cs[i]) /\ Lt(cs[i], lim[2])
    /\ Add(lim[1], lim[2]) = Add(MinOf(cs), MaxOf(cs))
    /\ Width(lim) = Mul(Add(Sub(MaxOf(cs), MinOf(cs)), Frac(2, 10)),
                        Frac(11, 10))

\* C17: right after every successful rebuild (plot_coins with the four
\* selectors set) the viewport is the autoscaled rectangle around the glyph
\* centres, whatever zoom or pan came before; apart from a rebuild, only a
\* scroll event and a motion event of an active drag change the viewport.
C17_RebuildAutoscalesViewport ==
    [][/\ RebuildStep =>
            /\ patches' # << >>
            /\ AutoscaledOn(xlim', Centres(patches', 1))
            /\ AutoscaledOn(ylim', Centres(patches', 2))
       /\ viewport' # viewport =>
            \/ RebuildStep
            \/ HandlerStep /\ lastEvent'.type = "scroll" /\ lastEvent'.inaxes
            \/ /\ HandlerStep /\ lastEvent'.type = "motion"
               /\ lastEvent'.inaxes /\ _is_dragging]_vars

\* a rebuild of the same scene during a drag that had started from a zoomed
\* viewport: the snapshot of the drag is not the autoscaled viewport the
\* rebuild has set
C17_Witness ==
    /\ lastEvent.type = "plot"
    /\ raised = "none"
    /\ previous.plotted = plotted
    /\ _drag_start # Outside
    /\ Width(_xlim_start) # Width(xlim)
    /\ viewport = Autoscale(patches)

\* C18: the viewport stays well-formed under every sequence of press,
\* motion, release, scroll and pick events: from the viewport a plot sets,
\* with xMin < xMax and yMin < yMax, every viewport reached has a strictly
\* positive width and height.
C18_ViewportWellFormed ==
    connected =>
        /\ Lt(xlim[1], xlim[2])
        /\ Lt(ylim[1], ylim[2])
        /\ Lt(R(0), Width(xlim))
        /\ Lt(R(0), Width(ylim))

\* a viewport that a scroll has resized and a motion of a drag has then moved
C18_Witness ==
    /\ connected
    /\ lastEvent.type = "motion"
    /\ lastEvent.inaxes
    /\ lastEvent.xdata # R(0)
    /\ lastEvent.ydata # R(0)
    /\ _is_dragging
    /\ Width(_xlim_start) # Width(Autoscale(patches)[1])
    /\ xlim # _xlim_start
    /\ Lt(xlim[1], xlim[2])

====
